---- MODULE Spec2Model ----
(***************************************************************************)
(* Model of the busybox debugging HTTP server (handler/server.go).         *)
(*                                                                         *)
(* State: the Handler's fields (logger, tracer, router), the progress of   *)
(* Run and of GracefulShutdown, the batching span processor's queue, the   *)
(* package-level allowedHeaders / allowedMethods slices, and one record    *)
(* per connection the net/http server is serving.  A request is handled in *)
(* three steps, which other connections and the shutdown may interleave:   *)
(*   ServeHTTP          lines 163-193 (CORS, preflight, context, span, log)*)
(*   RouterServeHTTP    line 195 (chi routing and the endpoint handler)    *)
(*   ServeHTTPReturn    line 196 (deferred span.End, net/http finishing)   *)
(* Each step appends what it did, in program order, to the connection's    *)
(* events.                                                                 *)
(***************************************************************************)
EXTENDS Integers, Sequences, FiniteSets, TLC

VARIABLES
    logger,          \* h.logger # nil
    tracer,          \* h.tracer: "nil", "up" (constructed), "down" (Shutdown called)
    router,          \* h.router # nil
    runPc,           \* progress of Run
    jaegerTrace,     \* viper "jaeger_trace" is a non-empty collector url
    gsPc,            \* progress of GracefulShutdown
    gsEvents,        \* what GracefulShutdown has done so far, in order
    queue,           \* ended spans buffered by the batcher, not yet exported
    allowedHeaders,  \* package variable
    allowedMethods,  \* package variable
    conn             \* per connection: the request in flight and its response

vars == <<logger, tracer, router, runPc, jaegerTrace, gsPc, gsEvents, queue,
          allowedHeaders, allowedMethods, conn>>

(***************************************************************************)
(* Bounds                                                                  *)
(***************************************************************************)
\* capacity of the batcher's span queue in the model; spans beyond it are dropped
MaxQueue == 2

\* connections served concurrently
Conns == {1, 2}

(***************************************************************************)
(* Program constants                                                       *)
(***************************************************************************)
\* faulty variant: the lists joined without the space
headersSepComma == ","

headersSep == ", "

StatusOK == 200

\* chi's default handlers for a path with no route / a route without the method
StatusNotFound == 404

StatusMethodNotAllowed == 405

\* written by the mounted third-party handler when it fails
StatusInternalServerError == 500

\* the response writer before WriteHeader or Write was called
NotWritten == 0

AllowedHeadersInit ==
    << "Accept", "Content-Type", "Content-Length", "Cookie", "Accept-Encoding",
       "Authorization", "X-CSRF-Token", "X-Requested-With", "X-Forwarded-For",
       "CF-Connecting-IP", "CF-Real-IP" >>

AllowedMethodsInit == << "OPTIONS", "GET", "PUT", "PATCH", "POST", "DELETE" >>

\* strings.Join
RECURSIVE Join(_, _)
Join(elems, sep) ==
    IF Len(elems) = 0 THEN ""
    ELSE IF Len(elems) = 1 THEN elems[1]
    ELSE elems[1] \o sep \o Join(Tail(elems), sep)

(***************************************************************************)
(* Requests                                                                *)
(***************************************************************************)
\* PURGE stands for the methods chi does not know
Methods == {"OPTIONS", "GET", "POST", "PUT", "PURGE"}

Paths == {"/health", "/debug", "/metrics", "/nope"}

Origins == {"", "https://app.example"}

ContentTypes == {"application/json", "text/plain"}

\* request bodies: empty, a JSON object, JSON null, a JSON array, not JSON
Bodies == {"", "{\"k\":1}", "null", "[1]", "not-json"}

\* The body and the Content-Type are read by mainHandler alone, for POST
\* (line 224): they vary on POST /debug and are fixed elsewhere.  A
\* text/plain request carries the JSON object or the text that is not JSON.
Requests ==
    { r \in [method : Methods, path : Paths, origin : Origins,
             ctype : ContentTypes, body : Bodies] :
        \/ r.ctype = "application/json" /\ r.body = ""
        \/ /\ r.method = "POST" /\ r.path = "/debug"
           /\ (r.ctype = "text/plain" => r.body \in {"{\"k\":1}", "not-json"}) }

NoRequest == [method |-> "", path |-> "", origin |-> "", ctype |-> "", body |-> ""]

Host == "busybox.local"

UserAgent == "curl/8"

\* r.RemoteAddr: the peer address of the connection
RemoteAddr(i) == "10.0.0." \o ToString(i) \o ":4000"

\* r.Header: name -> values, for the headers the request carries
Header(r) ==
    [n \in ({"User-Agent", "Content-Type"}
            \cup (IF r.origin # "" THEN {"Origin"} ELSE {})) |->
        IF n = "Origin" THEN <<r.origin>>
        ELSE IF n = "Content-Type" THEN <<r.ctype>>
        ELSE <<UserAgent>>]

(***************************************************************************)
(* Maps and the response writer                                            *)
(***************************************************************************)
EmptyMap == << >>

Put(m, k, v) == [x \in (DOMAIN m) \cup {k} |-> IF x = k THEN v ELSE m[x]]

\* a fresh http.ResponseWriter
NewResponseWriter ==
    [status |-> NotWritten, header |-> EmptyMap, kind |-> "empty", body |-> EmptyMap]

\* w.WriteHeader: the first call decides the status
WriteHeader(w, code) ==
    IF w.status = NotWritten THEN [w EXCEPT !.status = code] ELSE w

\* w.Write: an implicit WriteHeader(200) when none was made, then the bytes
Write(w, kind, body) ==
    [WriteHeader(w, StatusOK) EXCEPT !.kind = kind, !.body = body]

\* json.Marshal fails on values JSON cannot represent (channels, functions)
Marshalable(v) == \A k \in DOMAIN v : v[k][1] \notin {"chan", "func"}

\* writeResponse
writeResponse(w, v) ==
    LET w1 == [w EXCEPT !.header =
                   Put(w.header, "Content-Type", "application/json; charset=utf-8")]
    IN  IF ~Marshalable(v)
        THEN Write(w1, "text", [error |-> <<"string", "Cannot marshal response: ">>])
        ELSE Write(WriteHeader(w1, 200), "json", v)

(***************************************************************************)
(* Endpoint handlers                                                       *)
(***************************************************************************)
AppVersion == "v1.0.0"

\* faulty variant: the timestamp written as Unix seconds
healthCheckUnixTimestamp(w) ==
    writeResponse(w,
        [alive     |-> <<"number", "now-runDate">>,
         version   |-> <<"string", AppVersion>>,
         healthy   |-> <<"bool", "true">>,
         timestamp |-> <<"number", "now">>])

\* healthCheck: the clock-derived values are abstracted to their JSON type
healthCheck(w) ==
    writeResponse(w,
        [alive     |-> <<"number", "now-runDate">>,
         version   |-> <<"string", AppVersion>>,
         healthy   |-> <<"bool", "true">>,
         timestamp |-> <<"string", "RFC1123">>])

\* faulty variant: the end of input is not reported as an error
DecodeIgnoringEOF(body) ==
    CASE body \in {"", "null"} ->
            [err |-> "", value |-> <<"null", "null">>]
      [] body = "{\"k\":1}" ->
            [err |-> "", value |-> <<"object", body>>]
      [] body = "[1]" ->
            [err |-> "json: cannot unmarshal array into Go value of type map[string]interface {}",
             value |-> <<"null", "null">>]
      [] OTHER ->
            [err |-> "invalid character 'o' in literal null (expecting 'u')",
             value |-> <<"null", "null">>]

\* json.NewDecoder(r.Body).Decode(&bodyData), bodyData a map[string]any:
\* the Content-Type of the request is not consulted
Decode(body) ==
    CASE body = "" ->
            [err |-> "EOF", value |-> <<"null", "null">>]
      [] body = "{\"k\":1}" ->
            [err |-> "", value |-> <<"object", body>>]
      [] body = "null" ->
            [err |-> "", value |-> <<"null", "null">>]
      [] body = "[1]" ->
            [err |-> "json: cannot unmarshal array into Go value of type map[string]interface {}",
             value |-> <<"null", "null">>]
      [] OTHER ->
            [err |-> "invalid character 'o' in literal null (expecting 'u')",
             value |-> <<"null", "null">>]

\* faulty variant: results kept in a package-level map, so that it still holds what
\* a request on another connection put under body_decoding_error
PackageLevelResults ==
    LET left == {j \in Conns : /\ conn[j].w.kind = "json"
                               /\ "body_decoding_error" \in DOMAIN conn[j].w.body}
    IN  IF left = {} THEN EmptyMap
        ELSE [body_decoding_error |->
                conn[CHOOSE j \in left : TRUE].w.body["body_decoding_error"]]

\* results := make(map[string]any)
MakeResults == EmptyMap

\* mainHandler: the echo of the request, and what it did besides writing it
mainHandler(w, r, addr) ==
    LET results ==
            Put(Put(Put(Put(MakeResults,
                "headers", <<"array", Header(r)>>),
                "url", <<"object", r.path>>),
                "user_agent", <<"string", UserAgent>>),
                "remote_addr", <<"string", addr>>)
        d == Decode(r.body)
        echoed ==
            IF r.method = "POST"
            THEN IF d.err # ""
                 THEN Put(results, "body_decoding_error", <<"string", d.err>>)
                 ELSE Put(results, "body", d.value)
            ELSE results
    IN  [w |-> writeResponse(w, echoed),
         events |-> IF r.method = "POST"
                    THEN IF d.err # "" THEN <<"decode", "logDecodeError">>
                                       ELSE <<"decode">>
                    ELSE << >>]

(***************************************************************************)
(* Routing: the chi router built by Run                                    *)
(***************************************************************************)
\* the methods chi knows (its methodMap); any other method is answered 405
ChiMethods == {"CONNECT", "DELETE", "GET", "HEAD", "OPTIONS", "PATCH", "POST",
               "PUT", "TRACE"}

\* faulty variant: a registered path asked with another method falls to not-found
RouteNotFoundOnly(method, path) ==
    IF path = "/metrics" THEN "metrics"
    ELSE IF path = "/health" /\ method = "GET" THEN "healthCheck"
    ELSE IF path = "/debug" /\ method \in {"GET", "POST"} THEN "mainHandler"
    ELSE "notFound"

\* r.Mount("/metrics", ...), r.Get("/health", ...), r.Route("/debug", Get + Post)
Route(method, path) ==
    IF method \notin ChiMethods THEN "methodNotAllowed"
    ELSE IF path = "/metrics" THEN "metrics"
    ELSE IF path = "/health"
         THEN IF method = "GET" THEN "healthCheck" ELSE "methodNotAllowed"
    ELSE IF path = "/debug"
         THEN IF method \in {"GET", "POST"} THEN "mainHandler" ELSE "methodNotAllowed"
    ELSE "notFound"

\* what the mounted promhttp handler may do: it is not code of this program
MountedOutcomes == {"ok", "error", "panic"}

(***************************************************************************)
(* ServeHTTP, as functions of the connection record                        *)
(***************************************************************************)
NoSpan == [started |-> 0, ended |-> 0, deferred |-> FALSE, name |-> "", attrs |-> EmptyMap]

IdleConn ==
    [pc |-> "idle", req |-> NoRequest, w |-> NewResponseWriter, ctx |-> EmptyMap,
     span |-> NoSpan, events |-> << >>, panicked |-> FALSE]

\* lines 167-172: the CORS response headers, when the request has an Origin
SetCORS(w, r) ==
    IF r.origin # ""
    THEN [w EXCEPT !.header =
            Put(Put(Put(Put(w.header,
                "Access-Control-Allow-Credentials", "true"),
                "Access-Control-Allow-Origin", r.origin),
                "Access-Control-Allow-Methods", Join(allowedMethods, headersSep)),
                "Access-Control-Allow-Headers", Join(allowedHeaders, headersSep))]
    ELSE w

\* faulty variant: the method compared in the wrong case
IsPreflightLowercase(r) == r.method = "options"

\* line 175
IsPreflight(r) == r.method = "OPTIONS"

\* lines 180-183: context.WithValue four times (no X-Forwarded-For is sent)
BuildContext(r, addr) ==
    [host |-> Host, path |-> r.path, remote_addr |-> addr, x_forwarded_for |-> ""]

\* faulty variant: the method written under the key of the host
StartSpanHostOverwritten(r) ==
    [started |-> 1, ended |-> 0, deferred |-> TRUE, name |-> r.path,
     attrs |-> [host |-> r.method]]

\* faulty variant: the span started without deferring its End
StartSpanNoDefer(r) ==
    [started |-> 1, ended |-> 0, deferred |-> FALSE, name |-> r.path,
     attrs |-> [host |-> Host, method |-> r.method]]

\* lines 186-190: Start, two SetAttributes, defer span.End()
StartSpan(r) ==
    [started |-> 1, ended |-> 0, deferred |-> TRUE, name |-> r.path,
     attrs |-> [host |-> Host, method |-> r.method]]

\* faulty variant: the request is not logged
LogRequestNone(events) == events

\* line 193: the one "Handling request" record
LogRequest(events) == events \o <<"log">>

\* lines 163-193 on a fresh response writer
Serve(r, addr, tracing) ==
    LET w1 == SetCORS(NewResponseWriter, r)
        cors == IF r.origin # "" THEN <<"cors">> ELSE << >>
    IN  IF IsPreflight(r)
        THEN [pc |-> "returned", req |-> r, w |-> WriteHeader(w1, StatusOK),
              ctx |-> EmptyMap, span |-> NoSpan,
              events |-> cors \o <<"optionsCheck", "writeHeader">>,
              panicked |-> FALSE]
        ELSE [pc |-> "dispatch", req |-> r, w |-> w1,
              ctx |-> BuildContext(r, addr),
              span |-> IF tracing THEN StartSpan(r) ELSE NoSpan,
              events |-> LogRequest(cors \o <<"optionsCheck", "context">>
                                    \o (IF tracing THEN <<"spanStart">> ELSE << >>)),
              panicked |-> FALSE]

\* line 195: h.router.ServeHTTP, the routing and the whole endpoint handler
Dispatch(c, addr, outcome) ==
    LET h == Route(c.req.method, c.req.path)
        m == mainHandler(c.w, c.req, addr)
    IN  CASE h = "healthCheck" ->
                [c EXCEPT !.pc = "deferred", !.w = healthCheck(c.w),
                          !.events = @ \o <<"router", "healthCheck", "handlerReturn">>]
          [] h = "mainHandler" ->
                [c EXCEPT !.pc = "deferred", !.w = m.w,
                          !.events = @ \o <<"router", "mainHandler">> \o m.events
                                       \o <<"handlerReturn">>]
          [] h = "notFound" ->
                [c EXCEPT !.pc = "deferred",
                          !.w = Write(WriteHeader(c.w, StatusNotFound), "text", EmptyMap),
                          !.events = @ \o <<"router", "notFound", "handlerReturn">>]
          [] h = "methodNotAllowed" ->
                [c EXCEPT !.pc = "deferred",
                          !.w = WriteHeader(c.w, StatusMethodNotAllowed),
                          !.events = @ \o <<"router", "methodNotAllowed", "handlerReturn">>]
          [] OTHER ->
                CASE outcome = "ok" ->
                        [c EXCEPT !.pc = "deferred",
                                  !.w = Write(c.w, "text", EmptyMap),
                                  !.events = @ \o <<"router", "metrics", "handlerReturn">>]
                  [] outcome = "error" ->
                        [c EXCEPT !.pc = "deferred",
                                  !.w = Write(WriteHeader(c.w, StatusInternalServerError),
                                              "text", EmptyMap),
                                  !.events = @ \o <<"router", "metrics", "handlerReturn">>]
                  [] OTHER ->
                        [c EXCEPT !.pc = "deferred", !.panicked = TRUE,
                                  !.events = @ \o <<"router", "metrics", "panic">>]

\* faulty variant: End called explicitly as well as deferred
RunDeferredTwice(span) ==
    IF span.deferred THEN [span EXCEPT !.ended = @ + 2, !.deferred = FALSE] ELSE span

\* line 196: the deferred span.End runs as ServeHTTP returns or unwinds
RunDeferred(span) ==
    IF span.deferred THEN [span EXCEPT !.ended = @ + 1, !.deferred = FALSE] ELSE span

\* the return of ServeHTTP; net/http then finishes the response with an implicit
\* 200 when nothing was written, or drops the connection after a panic
Return(c) ==
    [c EXCEPT !.pc = "returned",
              !.span = RunDeferred(c.span),
              !.events = @ \o (IF RunDeferred(c.span) # c.span THEN <<"spanEnd">> ELSE << >>),
              !.w = IF c.panicked THEN [c.w EXCEPT !.kind = "aborted"]
                    ELSE WriteHeader(c.w, StatusOK)]

(***************************************************************************)
(* The process                                                             *)
(***************************************************************************)
\* neither os.Exit(0) in GracefulShutdown nor a failed Run (os.Exit(1) in cmd)
Alive == gsPc # "exited" /\ runPc # "failed"

Init ==
    /\ logger = FALSE
    /\ tracer = "nil"
    /\ router = FALSE
    /\ runPc = "start"
    /\ jaegerTrace \in BOOLEAN
    /\ gsPc = "idle"
    /\ gsEvents = << >>
    /\ queue = 0
    /\ allowedHeaders = AllowedHeadersInit
    /\ allowedMethods = AllowedMethodsInit
    /\ conn = [i \in Conns |-> IdleConn]

\* Run, lines 119-121: initLogger; cfg.Build may fail
RunInitLogger ==
    /\ Alive /\ gsPc = "idle" /\ runPc = "start"
    /\ \E ok \in BOOLEAN :
        /\ logger' = ok
        /\ runPc' = IF ok THEN "logger" ELSE "failed"
    /\ UNCHANGED <<tracer, router, jaegerTrace, gsPc, gsEvents, queue,
                   allowedHeaders, allowedMethods, conn>>

\* Run, lines 123-125: initTracer; jaeger.New may fail
RunInitTracer ==
    /\ Alive /\ gsPc = "idle" /\ runPc = "logger"
    /\ \E ok \in BOOLEAN :
        /\ tracer' = IF jaegerTrace /\ ok THEN "up" ELSE "nil"
        /\ runPc' = IF jaegerTrace /\ ~ok THEN "failed" ELSE "tracer"
    /\ UNCHANGED <<logger, router, jaegerTrace, gsPc, gsEvents, queue,
                   allowedHeaders, allowedMethods, conn>>

\* Run, lines 127-148: the routes, then ListenAndServe, which may fail to bind
RunListen ==
    /\ Alive /\ gsPc = "idle" /\ runPc = "tracer"
    /\ router' = TRUE
    /\ \E ok \in BOOLEAN : runPc' = IF ok THEN "serving" ELSE "failed"
    /\ UNCHANGED <<logger, tracer, jaegerTrace, gsPc, gsEvents, queue,
                   allowedHeaders, allowedMethods, conn>>

\* ServeHTTP up to the router call, for a request arriving on connection i
ServeHTTP(i) ==
    /\ Alive /\ runPc = "serving"
    /\ conn[i].pc = "idle"
    /\ \E r \in Requests :
        conn' = [conn EXCEPT ![i] = Serve(r, RemoteAddr(i), tracer # "nil")]
    /\ UNCHANGED <<logger, tracer, router, runPc, jaegerTrace, gsPc, gsEvents, queue,
                   allowedHeaders, allowedMethods>>

\* h.router.ServeHTTP(w, r.WithContext(ctx))
RouterServeHTTP(i) ==
    /\ Alive
    /\ conn[i].pc = "dispatch"
    /\ \E outcome \in MountedOutcomes :
        conn' = [conn EXCEPT ![i] = Dispatch(conn[i], RemoteAddr(i), outcome)]
    /\ UNCHANGED <<logger, tracer, router, runPc, jaegerTrace, gsPc, gsEvents, queue,
                   allowedHeaders, allowedMethods>>

\* span.End hands the span to the batcher while the provider is up; a full
\* queue drops it
Enqueue(q, c) ==
    IF c.span.deferred /\ tracer = "up" /\ q < MaxQueue THEN q + 1 ELSE q

\* ServeHTTP returns, running its deferred call
ServeHTTPReturn(i) ==
    /\ Alive
    /\ conn[i].pc = "deferred"
    /\ conn' = [conn EXCEPT ![i] = Return(conn[i])]
    /\ queue' = Enqueue(queue, conn[i])
    /\ UNCHANGED <<logger, tracer, router, runPc, jaegerTrace, gsPc, gsEvents,
                   allowedHeaders, allowedMethods>>

\* net/http has sent the response; the connection waits for its next request
ConnReady(i) ==
    /\ Alive
    /\ conn[i].pc = "returned"
    /\ conn' = [conn EXCEPT ![i] = IdleConn]
    /\ UNCHANGED <<logger, tracer, router, runPc, jaegerTrace, gsPc, gsEvents, queue,
                   allowedHeaders, allowedMethods>>

\* the batcher exports what it has buffered
ExportBatch ==
    /\ Alive /\ tracer = "up" /\ queue > 0
    /\ queue' = 0
    /\ UNCHANGED <<logger, tracer, router, runPc, jaegerTrace, gsPc, gsEvents,
                   allowedHeaders, allowedMethods, conn>>

\* GracefulShutdown, lines 152-154.  The repository has no caller: the call is
\* made on a Handler whose Run has not started, or while Run serves.
GracefulShutdownLog ==
    /\ Alive /\ gsPc = "idle" /\ runPc \in {"start", "serving"}
    /\ gsPc' = "logged"
    /\ gsEvents' = IF logger THEN gsEvents \o <<"log">> ELSE gsEvents
    /\ UNCHANGED <<logger, tracer, router, runPc, jaegerTrace, queue,
                   allowedHeaders, allowedMethods, conn>>

\* faulty variant: the tracer is left as it is
TracerNotShutDown(t) == t

\* what lines 156-158 do to the tracer: Shutdown flushes the queue and closes
TracerAfterShutdown(t) == IF t # "nil" THEN "down" ELSE t

\* GracefulShutdown, lines 156-158
GracefulShutdownTracer ==
    /\ Alive /\ gsPc = "logged"
    /\ gsPc' = "tracerDone"
    /\ tracer' = TracerAfterShutdown(tracer)
    /\ queue' = IF tracer # "nil" THEN 0 ELSE queue
    /\ gsEvents' = IF tracer # "nil" THEN gsEvents \o <<"tracerShutdown">> ELSE gsEvents
    /\ UNCHANGED <<logger, router, runPc, jaegerTrace,
                   allowedHeaders, allowedMethods, conn>>

\* GracefulShutdown, line 160: os.Exit(0); the connections die with the process
GracefulShutdownExit ==
    /\ Alive /\ gsPc = "tracerDone"
    /\ gsPc' = "exited"
    /\ gsEvents' = gsEvents \o <<"exit">>
    /\ conn' = [i \in Conns |-> IdleConn]
    /\ UNCHANGED <<logger, tracer, router, runPc, jaegerTrace, queue,
                   allowedHeaders, allowedMethods>>

Next ==
    \/ RunInitLogger
    \/ RunInitTracer
    \/ RunListen
    \/ \E i \in Conns : ServeHTTP(i)
    \/ \E i \in Conns : RouterServeHTTP(i)
    \/ \E i \in Conns : ServeHTTPReturn(i)
    \/ \E i \in Conns : ConnReady(i)
    \/ ExportBatch
    \/ GracefulShutdownLog
    \/ GracefulShutdownTracer
    \/ GracefulShutdownExit

Spec == Init /\ [][Next]_vars

\* once called, GracefulShutdown runs on its own goroutine to its end
FairSpec ==
    Spec /\ WF_vars(GracefulShutdownTracer) /\ WF_vars(GracefulShutdownExit)

(***************************************************************************)
(* Properties                                                              *)
(***************************************************************************)
\* how often e occurs in events
Count(events, e) == Cardinality({k \in 1..Len(events) : events[k] = e})

\* the first position of e in events, 0 when it does not occur
Pos(events, e) ==
    IF Count(events, e) = 0 THEN 0
    ELSE CHOOSE k \in 1..Len(events) :
            events[k] = e /\ \A l \in 1..(k - 1) : events[l] # e

\* the handler has been left, by a return or by a panic
HandlerLeft(events) == IF Pos(events, "panic") > 0 THEN Pos(events, "panic")
                       ELSE Pos(events, "handlerReturn")

InFlight(c) == c.pc \in {"dispatch", "deferred", "returned"}

\* C1: a span opened by ServeHTTP is never ended before the endpoint handler
\* is left, never ended twice, and is ended exactly once when ServeHTTP has
\* returned, on every path: handler return, decode failure, unmatched route,
\* panic.
C1_SpanEndedOnceAfterHandler ==
    \A i \in Conns :
        LET c == conn[i] IN
        c.span.started > 0 =>
            /\ c.span.started = 1
            /\ c.span.ended <= 1
            /\ c.span.ended = Count(c.events, "spanEnd")
            /\ c.pc \in {"dispatch", "deferred"} => c.span.ended = 0
            /\ c.pc = "returned" =>
                /\ c.span.ended = 1
                /\ HandlerLeft(c.events) > 0
                /\ Pos(c.events, "spanEnd") > HandlerLeft(c.events)

\* C1 witness: a traced request whose handler panicked and a traced POST
\* /debug whose body failed to decode have both returned, spans ended
C1_Witness ==
    \E i, j \in Conns :
        /\ conn[i].pc = "returned" /\ conn[i].panicked /\ conn[i].span.ended = 1
        /\ conn[j].pc = "returned" /\ conn[j].span.ended = 1
        /\ Count(conn[j].events, "logDecodeError") = 1

\* C2 as stated: every request handled while tracing is enabled, whatever its
\* method, has exactly one span opened and exactly one span closed
C2_Original ==
    \A i \in Conns :
        (conn[i].pc = "returned" /\ tracer # "nil") =>
            conn[i].span.started = 1 /\ conn[i].span.ended = 1

\* C2 amended: while tracing is enabled every request other than an OPTIONS
\* preflight has exactly one span opened and, once handled, exactly one span
\* closed, a decode failure included; a preflight opens and closes none
C2_SpanPerNonPreflightRequest ==
    \A i \in Conns :
        LET c == conn[i] IN
        (InFlight(c) /\ tracer # "nil") =>
            IF c.req.method = "OPTIONS"
            THEN c.span.started = 0 /\ c.span.ended = 0
            ELSE /\ c.span.started = 1
                 /\ Count(c.events, "spanStart") = 1
                 /\ c.pc = "returned" => c.span.ended = 1

\* C2 witness: a traced POST /debug with an undecodable body has returned
C2_Witness ==
    \E i \in Conns :
        /\ conn[i].pc = "returned" /\ tracer # "nil"
        /\ conn[i].req.method = "POST" /\ conn[i].req.path = "/debug"
        /\ conn[i].w.kind = "json"
        /\ "body_decoding_error" \in DOMAIN conn[i].w.body
        /\ conn[i].span.started = 1 /\ conn[i].span.ended = 1

\* C3: an OPTIONS request ends in ServeHTTP itself: status 200, empty body,
\* and no router call, endpoint handler, request context, span or log record
C3_PreflightTerminal ==
    \A i \in Conns :
        LET c == conn[i] IN
        (c.pc # "idle" /\ c.req.method = "OPTIONS") =>
            /\ c.pc = "returned"
            /\ c.w.status = StatusOK
            /\ c.w.kind = "empty" /\ c.w.body = EmptyMap
            /\ c.ctx = EmptyMap
            /\ c.span = NoSpan
            /\ \A e \in {"router", "healthCheck", "mainHandler", "metrics", "notFound",
                         "methodNotAllowed", "handlerReturn", "context", "spanStart",
                         "spanEnd", "log"} : Count(c.events, e) = 0

\* C3 witness: a preflight to a routed path answered while tracing is enabled
C3_Witness ==
    \E i \in Conns :
        /\ conn[i].pc = "returned" /\ conn[i].req.method = "OPTIONS"
        /\ conn[i].req.path = "/debug" /\ tracer = "up"

CorsHeaderNames ==
    {"Access-Control-Allow-Credentials", "Access-Control-Allow-Origin",
     "Access-Control-Allow-Methods", "Access-Control-Allow-Headers"}

FixedAllowMethods == "OPTIONS, GET, PUT, PATCH, POST, DELETE"

FixedAllowHeaders ==
    "Accept, Content-Type, Content-Length, Cookie, Accept-Encoding, Authorization, X-CSRF-Token, X-Requested-With, X-Forwarded-For, CF-Connecting-IP, CF-Real-IP"

HasFixedCors(w) ==
    /\ CorsHeaderNames \subseteq DOMAIN w.header
    /\ w.header["Access-Control-Allow-Credentials"] = "true"
    /\ w.header["Access-Control-Allow-Methods"] = FixedAllowMethods
    /\ w.header["Access-Control-Allow-Headers"] = FixedAllowHeaders

\* C4 as stated: every OPTIONS response has status 200, an empty body and the
\* four CORS headers with the fixed lists
C4_Original ==
    \A i \in Conns :
        LET c == conn[i] IN
        (c.pc = "returned" /\ c.req.method = "OPTIONS") =>
            /\ c.w.status = StatusOK
            /\ c.w.kind = "empty"
            /\ HasFixedCors(c.w)

\* C4 amended: every OPTIONS response has status 200 and an empty body; it
\* has the four CORS headers, with the fixed lists and the request's Origin
\* echoed, when the request carries a non-empty Origin header, and none of
\* the four otherwise
C4_PreflightCorsWhenOrigin ==
    \A i \in Conns :
        LET c == conn[i] IN
        (c.pc = "returned" /\ c.req.method = "OPTIONS") =>
            /\ c.w.status = StatusOK
            /\ c.w.kind = "empty"
            /\ IF c.req.origin # ""
               THEN /\ HasFixedCors(c.w)
                    /\ c.w.header["Access-Control-Allow-Origin"] = c.req.origin
               ELSE CorsHeaderNames \cap DOMAIN c.w.header = {}

\* C4 witness: a preflight with an Origin and one without have been answered
C4_Witness ==
    \E i, j \in Conns :
        /\ conn[i].pc = "returned" /\ conn[i].req.method = "OPTIONS"
        /\ conn[i].req.origin # "" /\ conn[i].req.path = "/nope"
        /\ conn[j].pc = "returned" /\ conn[j].req.method = "OPTIONS"
        /\ conn[j].req.origin = ""

\* C5: for a request that is not a preflight, the CORS headers (with an
\* Origin) and the OPTIONS check come before the span, the log record and the
\* router call; there is exactly one "Handling request" record, before the
\* endpoint handler starts
C5_PipelineOrder ==
    \A i \in Conns :
        LET c == conn[i]
            ev == c.events
        IN
        (InFlight(c) /\ c.req.method # "OPTIONS") =>
            /\ Count(ev, "log") = 1
            /\ Count(ev, "optionsCheck") = 1
            /\ (c.req.origin # "") <=> (Count(ev, "cors") = 1)
            /\ (c.req.origin # "") => /\ Pos(ev, "cors") < Pos(ev, "optionsCheck")
                                      /\ HasFixedCors(c.w)
            /\ Pos(ev, "optionsCheck") < Pos(ev, "log")
            /\ Count(ev, "spanStart") = 1 =>
                    /\ Pos(ev, "optionsCheck") < Pos(ev, "spanStart")
                    /\ Pos(ev, "spanStart") < Pos(ev, "log")
            /\ Count(ev, "router") <= 1
            /\ Count(ev, "router") = 1 => Pos(ev, "log") < Pos(ev, "router")
            /\ \A h \in {"healthCheck", "mainHandler", "metrics", "notFound",
                         "methodNotAllowed"} :
                    Count(ev, h) = 1 => Pos(ev, "router") < Pos(ev, h)
            /\ c.pc \in {"deferred", "returned"} => Count(ev, "router") = 1

\* C5 witness: a traced cross-origin GET /debug has run its handler
C5_Witness ==
    \E i \in Conns :
        /\ conn[i].pc = "deferred" /\ conn[i].req.origin # ""
        /\ conn[i].req.method = "GET" /\ conn[i].req.path = "/debug"
        /\ Count(conn[i].events, "spanStart") = 1
        /\ Count(conn[i].events, "mainHandler") = 1

\* the endpoints of the program itself; /metrics is mounted third-party code
OwnPaths == Paths \ {"/metrics"}

RegisteredRoutes == {<<"GET", "/health">>, <<"GET", "/debug">>, <<"POST", "/debug">>}

RegisteredPaths == {"/health", "/debug", "/metrics"}

\* C6 as stated: on the program's own endpoints the status is 200 when
\* method and path match a registered handler and 404 otherwise
C6_Original ==
    \A i \in Conns :
        LET c == conn[i] IN
        (c.pc = "returned" /\ c.req.path \in OwnPaths /\ c.req.method # "OPTIONS") =>
            c.w.status = IF <<c.req.method, c.req.path>> \in RegisteredRoutes
                         THEN StatusOK ELSE StatusNotFound

\* C6 amended: on the program's own endpoints the status is 200 for OPTIONS
\* and when method and path match a registered handler, 405 when the path is
\* registered but not with that method or the method is none the router
\* knows, and 404 when the path is not registered; no other status is
\* returned
C6_StatusByRoute ==
    \A i \in Conns :
        LET c == conn[i] IN
        (c.pc = "returned" /\ c.req.path \in OwnPaths) =>
            /\ ~c.panicked
            /\ c.w.status =
                IF c.req.method = "OPTIONS" THEN StatusOK
                ELSE IF <<c.req.method, c.req.path>> \in RegisteredRoutes THEN StatusOK
                ELSE IF c.req.method = "PURGE" \/ c.req.path \in RegisteredPaths
                     THEN StatusMethodNotAllowed
                ELSE StatusNotFound

\* C6 witness: PUT /debug, POST /health and GET /nope have been answered 405,
\* 405 and 404
C6_Witness ==
    \E i, j \in Conns :
        /\ conn[i].pc = "returned" /\ conn[i].w.status = StatusMethodNotAllowed
        /\ conn[i].req.method \in {"PUT", "POST"}
        /\ conn[i].req.path \in {"/debug", "/health"}
        /\ conn[j].pc = "returned" /\ conn[j].w.status = StatusNotFound
        /\ conn[j].req.method = "GET" /\ conn[j].req.path = "/nope"

EchoAlways == {"headers", "url", "user_agent", "remote_addr"}

IsDebug(c, method) ==
    c.pc = "returned" /\ c.req.method = method /\ c.req.path = "/debug"

\* C7 as stated: POST /debug answers 200 with the echo and exactly one of
\* body / body_decoding_error: the error when decoding fails, which malformed
\* JSON, a wrong content type and an empty body all make it do, and the body
\* otherwise; GET /debug parses nothing and has neither field
C7_Original ==
    \A i \in Conns :
        LET c == conn[i]
            fails == \/ c.req.body \in {"", "[1]", "not-json"}
                     \/ c.req.ctype # "application/json"
        IN
        /\ IsDebug(c, "POST") =>
            /\ c.w.status = StatusOK /\ c.w.kind = "json"
            /\ DOMAIN c.w.body =
                EchoAlways \cup (IF fails THEN {"body_decoding_error"} ELSE {"body"})
        /\ IsDebug(c, "GET") =>
            /\ c.w.status = StatusOK /\ c.w.kind = "json"
            /\ DOMAIN c.w.body = EchoAlways
            /\ Count(c.events, "decode") = 0

\* C7 amended: POST /debug answers 200 with headers, url, user agent and
\* remote address and exactly one of body / body_decoding_error: a non-empty
\* error when the body is empty, is not JSON or is JSON other than an object
\* or null, and the decoded body (the object, or null for JSON null)
\* otherwise, whatever the Content-Type; GET /debug parses nothing and has
\* neither field
C7_EchoNeverFails ==
    \A i \in Conns :
        LET c == conn[i]
            fails == c.req.body \in {"", "[1]", "not-json"}
        IN
        /\ IsDebug(c, "POST") =>
            /\ c.w.status = StatusOK /\ c.w.kind = "json" /\ ~c.panicked
            /\ Count(c.events, "decode") = 1
            /\ c.w.body["headers"] = <<"array", Header(c.req)>>
            /\ c.w.body["url"] = <<"object", c.req.path>>
            /\ c.w.body["user_agent"] = <<"string", UserAgent>>
            /\ c.w.body["remote_addr"] = <<"string", RemoteAddr(i)>>
            /\ DOMAIN c.w.body =
                EchoAlways \cup (IF fails THEN {"body_decoding_error"} ELSE {"body"})
            /\ fails => /\ c.w.body["body_decoding_error"][1] = "string"
                        /\ c.w.body["body_decoding_error"][2] # ""
            /\ ~fails => c.w.body["body"] =
                            IF c.req.body = "null" THEN <<"null", "null">>
                            ELSE <<"object", c.req.body>>
        /\ IsDebug(c, "GET") =>
            /\ c.w.status = StatusOK /\ c.w.kind = "json" /\ ~c.panicked
            /\ DOMAIN c.w.body = EchoAlways
            /\ Count(c.events, "decode") = 0

\* C7 witness: a text/plain POST /debug carrying a JSON object was echoed
\* with body, and a POST /debug with an empty body with the error
C7_Witness ==
    \E i, j \in Conns :
        /\ IsDebug(conn[i], "POST") /\ conn[i].req.ctype = "text/plain"
        /\ "body" \in DOMAIN conn[i].w.body
        /\ IsDebug(conn[j], "POST") /\ conn[j].req.body = ""
        /\ "body_decoding_error" \in DOMAIN conn[j].w.body

\* C10: every answered GET /health has status 200 and a JSON object with
\* healthy the boolean true and timestamp a string; the handler does nothing
\* but write it, with tracing or without, whatever else was or is handled
C10_HealthAlwaysOk ==
    \A i \in Conns :
        LET c == conn[i] IN
        (c.req.method = "GET" /\ c.req.path = "/health") =>
            /\ ~c.panicked
            /\ c.pc \in {"deferred", "returned"} =>
                /\ c.w.status = StatusOK
                /\ c.w.kind = "json"
                /\ c.w.header["Content-Type"] = "application/json; charset=utf-8"
                /\ {"healthy", "timestamp"} \subseteq DOMAIN c.w.body
                /\ c.w.body["healthy"] = <<"bool", "true">>
                /\ c.w.body["timestamp"][1] = "string"
                /\ SelectSeq(c.events, LAMBDA e : e \notin
                        {"cors", "optionsCheck", "context", "spanStart", "log", "spanEnd"})
                    = <<"router", "healthCheck", "handlerReturn">>

\* C10 witness: GET /health answered after the tracer was shut down, while
\* the other connection holds a failed body decode
C10_Witness ==
    \E i, j \in Conns :
        /\ conn[i].pc = "returned" /\ conn[i].req.method = "GET"
        /\ conn[i].req.path = "/health" /\ conn[i].w.status = StatusOK
        /\ tracer = "down"
        /\ conn[j].pc = "returned" /\ Count(conn[j].events, "logDecodeError") = 1

\* what GracefulShutdown has to have done, in order, when the process exits
ShutdownSteps ==
    (IF logger THEN <<"log">> ELSE << >>)
        \o (IF tracer # "nil" THEN <<"tracerShutdown">> ELSE << >>)
        \o <<"exit">>

C8_ShutdownOrder ==
    /\ gsPc = "exited" => /\ gsEvents = ShutdownSteps
                          /\ tracer # "up"
                          /\ queue = 0
    /\ gsPc # "exited" => Count(gsEvents, "exit") = 0
    /\ gsPc \in {"idle", "logged"} => Count(gsEvents, "tracerShutdown") = 0

Respond(r, addr) ==
    LET entered == Serve(r, addr, FALSE)
    IN  IF entered.pc = "returned" THEN entered.w
        ELSE Return(Dispatch(entered, addr, "ok")).w

\* C9 (state): the response written for a request on the program's own
\* endpoints is the function of that request alone, whatever the other
\* connection does or did and whether tracing is on
C9_ResponseOfRequestAlone ==
    \A i \in Conns :
        LET c == conn[i] IN
        (c.pc = "returned" /\ c.req.path \in OwnPaths) =>
            c.w = Respond(c.req, RemoteAddr(i))

\* C9 (steps): no step modifies allowedHeaders or allowedMethods, and a step
\* of one request leaves the context, span and response of every other
\* request as they are (the exit of the process ends them all)
C9_StepsTouchOneRequest ==
    /\ allowedHeaders' = allowedHeaders
    /\ allowedMethods' = allowedMethods
    /\ \A i, j \in Conns :
        (i # j /\ conn[i]' # conn[i] /\ gsPc' # "exited") => conn[j]' = conn[j]

Traced(c) == InFlight(c) /\ c.req.method # "OPTIONS" /\ tracer # "nil"

\* C11 as stated: the span opened for a request is named the request path
\* with its leading "/" removed, and is tagged with the request's host and
\* method
C11_Original ==
    \A i \in Conns :
        LET c == conn[i] IN
        Traced(c) =>
            /\ c.span.started = 1
            /\ "/" \o c.span.name = c.req.path
            /\ c.span.attrs = [host |-> Host, method |-> c.req.method]

\* C11 amended: the span opened for a request is named the request path as
\* it is, leading "/" included (path /debug gives span name "/debug"), and
\* is tagged with the request's host and method and nothing else
C11_SpanNamedByPath ==
    \A i \in Conns :
        LET c == conn[i] IN
        Traced(c) =>
            /\ c.span.started = 1
            /\ c.span.name = c.req.path
            /\ DOMAIN c.span.attrs = {"host", "method"}
            /\ c.span.attrs["host"] = c.ctx["host"]
            /\ c.span.attrs["host"] = Host
            /\ c.span.attrs["method"] = c.req.method

\* C11 witness: a traced POST /debug is in its handler with a span named
\* "/debug"
C11_Witness ==
    \E i \in Conns :
        /\ conn[i].pc = "dispatch" /\ tracer = "up"
        /\ conn[i].req.method = "POST" /\ conn[i].req.path = "/debug"
        /\ conn[i].span.name = "/debug"
        /\ conn[i].span.attrs["method"] = "POST"

====
